---------------------------- MODULE Spec2Model ----------------------------
(***************************************************************************)
(* Model of the OpenStreetMap wrangling program: the value normalizers,   *)
(* shape_element and process_map of data_cleaning_extraction.py.          *)
(*                                                                         *)
(* A Python str is modelled as a sequence of one-character strings, so    *)
(* that "in", replace, split and slicing are computed character by        *)
(* character as Python computes them.                                      *)
(***************************************************************************)
EXTENDS Naturals, Sequences, FiniteSets

VARIABLES pc, value, result, again, element, el, sinks, raised, remaining, validate

vars == <<pc, value, result, again, element, el, sinks, raised, remaining, validate>>

(***************************************************************************)
(* Bounds of the model.                                                    *)
(***************************************************************************)
\* number of fragments a street name is composed of
MaxStreetParts == 2
\* number of fragments a phone value is composed of
MaxPhoneParts == 2
\* length of a postcode value
MaxPostLen == 6
\* number of fragments a pharmacy name is composed of
MaxNameParts == 3
\* number of fragments a county value is composed of
MaxCountyParts == 4

(***************************************************************************)
(* Python str operations.                                                  *)
(***************************************************************************)
\* sub in s
Contains(sub, s) ==
  \E i \in 1..(Len(s) + 1 - Len(sub)) : SubSeq(s, i, i + Len(sub) - 1) = sub

\* s.replace(old, new) for a non-empty old: leftmost, non-overlapping
RECURSIVE Replace(_, _, _)
Replace(s, old, new) ==
  IF Len(s) < Len(old) THEN s
  ELSE IF SubSeq(s, 1, Len(old)) = old
       THEN new \o Replace(SubSeq(s, Len(old) + 1, Len(s)), old, new)
       ELSE <<Head(s)>> \o Replace(Tail(s), old, new)

\* s[0:n]
Slice(s, n) == SubSeq(s, 1, IF Len(s) < n THEN Len(s) ELSE n)

\* s.find(c) for a one-character c, 0 standing for Python's -1
Find(s, c) ==
  IF \E i \in 1..Len(s) : s[i] = c
  THEN CHOOSE i \in 1..Len(s) : s[i] = c /\ \A j \in 1..(i - 1) : s[j] # c
  ELSE 0

\* s.split(c, 1) for a one-character c
Split1(s, c) ==
  IF Find(s, c) = 0 THEN <<s>>
  ELSE <<SubSeq(s, 1, Find(s, c) - 1), SubSeq(s, Find(s, c) + 1, Len(s))>>

\* the concatenation of a sequence of strings
RECURSIVE Join(_)
Join(parts) == IF parts = <<>> THEN <<>> ELSE Head(parts) \o Join(Tail(parts))

\* the sequences over S of length at most n
SeqsUpTo(S, n) == UNION {[1..k -> S] : k \in 0..n}

(***************************************************************************)
(* The street normalizer.                                                  *)
(***************************************************************************)
\* the dict literal, in the order `for map in mapping` visits it.  The
\* program is Python 2 code (unicode, iteritems) and a Python 2.7 dict is
\* iterated in the order of its hash slots, not in the order the literal
\* lists its entries; for these 25 keys that order is the one below.
mapping ==
  << <<<<"S", "t", ".">>, <<"S", "t", "r", "e", "e", "t">>>>,
     <<<<"R", "d">>, <<"R", "o", "a", "d">>>>,
     <<<<"D", "r", ".">>, <<"D", "r", "i", "v", "e">>>>,
     <<<<"E">>, <<"E", "a", "s", "t">>>>,
     <<<<"R", "d", ".">>, <<"R", "o", "a", "d">>>>,
     <<<<"P", "l">>, <<"P", "l", "a", "c", "e">>>>,
     <<<<"R", "D">>, <<"R", "o", "a", "d">>>>,
     <<<<"N", "E">>, <<"N", "o", "r", "t", "h", "e", "a", "s", "t">>>>,
     <<<<"r", "d">>, <<"R", "o", "a", "d">>>>,
     <<<<"L", "n", ".">>, <<"L", "a", "n", "e">>>>,
     <<<<"N", ".", "W", ".">>, <<"N", "o", "r", "t", "h", "w", "a", "s", "t">>>>,
     <<<<"D", "r">>, <<"D", "r", "i", "v", "e">>>>,
     <<<<"N", "W">>, <<"N", "o", "r", "t", "h", "w", "a", "s", "t">>>>,
     <<<<"A", "v", "e", ".">>, <<"A", "v", "e", "n", "u", "e">>>>,
     <<<<"S", "t">>, <<"S", "t", "r", "e", "e", "t">>>>,
     <<<<"C", "i", "r">>, <<"C", "i", "r", "c", "l", "e">>>>,
     <<<<"W">>, <<"W", "e", "s", "t">>>>,
     <<<<"N">>, <<"W", "e", "s", "t">>>>,
     <<<<"a", "v", "e">>, <<"A", "v", "e", "n", "u", "e">>>>,
     <<<<"R", "d", "\\">>, <<"R", "o", "a", "d">>>>,
     <<<<"B", "l", "v", "d">>, <<"B", "o", "u", "l", "e", "v", "a", "r", "d">>>>,
     <<<<"A", "v", "e">>, <<"A", "v", "e", "n", "u", "e">>>>,
     <<<<"T", "e", "r">>, <<"T", "e", "r", "r", "a", "c", "e">>>>,
     <<<<"n", ".", "w", ".">>, <<"N", "o", "r", "t", "h", "w", "a", "s", "t">>>>,
     <<<<"C", "t">>, <<"C", "o", "u", "r", "t">>>> >>

\* the for loop of update_name from the i-th entry of the table on
RECURSIVE update_name_loop(_, _, _)
update_name_loop(name, m, i) ==
  IF i > Len(m) THEN name
  ELSE IF Contains(m[i][2], name) THEN name
  ELSE IF Contains(m[i][1], name)
       THEN update_name_loop(Replace(name, m[i][1], m[i][2]), m, i + 1)
       ELSE update_name_loop(name, m, i + 1)

update_name(name, m) == update_name_loop(name, m, 1)

(***************************************************************************)
(* The pharmacy-name, county, phone and postcode normalizers.              *)
(***************************************************************************)
fix_pharmacy(v) ==
  LET v1 == Replace(v, <<"/">>, <<>>)
      v2 == Replace(v1, <<"-">>, <<>>)
      v3 == Replace(v2, <<"P", "h", "a", "r", "m", "a", "c", "y">>, <<>>)
      v4 == Replace(v3, <<"p", "h", "a", "r", "m", "a", "c", "y">>, <<>>)
  IN  Replace(v4, <<" ">>, <<>>)

\* fix_county cutting at the first comma whatever else the value holds
fix_county_always_cut(v) == Split1(v, ",")[1]

fix_county(v) ==
  IF Find(v, ":") = 0 /\ Find(v, ";") = 0 THEN Split1(v, ",")[1] ELSE v

\* fix_phone without the truncation to 10 characters
fix_phone_untruncated(v) ==
  LET a1 == IF v = <<"+", "1", " ", "8", "6", "6", "-", "R", "I", "D", "M", "T", "A">> THEN <<"8", "6", "6", "7", "4", "3", "3", "6", "8", "2">> ELSE v
      a2 == IF a1 = <<"+", "1", "3", "1", "9", "2", "8", "8", "1">> THEN <<"2", "0", "2", "3", "1", "9", "2", "8", "8", "1">> ELSE a1
      a3 == IF a2 = <<"6", "4", "9", " ", "3", "5", "5", "5">> THEN <<"3", "0", "1", "6", "4", "9", "3", "5", "5", "5">> ELSE a2
      b1 == Replace(a3, <<"+", "1", " ">>, <<>>)
      b2 == Replace(b1, <<"-">>, <<>>)
      b3 == Replace(b2, <<" ">>, <<>>)
      b4 == Replace(b3, <<".">>, <<>>)
      b5 == Replace(b4, <<"(">>, <<>>)
      b6 == Replace(b5, <<")">>, <<>>)
      b7 == Replace(b6, <<"+", "1">>, <<>>)
      b8 == Replace(b7, <<"N", "e", "w", " ", "C", "u", "s", "t", "o", "m", "e", "r", ":", " ">>, <<>>)
      b9 == Replace(b8, <<"S", "u", "s", "a", "n", "n", "a", " ", "F", "a", "r", "m", " ", "N", "u", "r", "s", "e", "r", "y", ":", " ">>, <<>>)
      b10 == Replace(b9, <<"t", "e", "l", ":">>, <<>>)
  IN  b10

fix_phone(v) ==
  LET a1 == IF v = <<"+", "1", " ", "8", "6", "6", "-", "R", "I", "D", "M", "T", "A">> THEN <<"8", "6", "6", "7", "4", "3", "3", "6", "8", "2">> ELSE v
      a2 == IF a1 = <<"+", "1", "3", "1", "9", "2", "8", "8", "1">> THEN <<"2", "0", "2", "3", "1", "9", "2", "8", "8", "1">> ELSE a1
      a3 == IF a2 = <<"6", "4", "9", " ", "3", "5", "5", "5">> THEN <<"3", "0", "1", "6", "4", "9", "3", "5", "5", "5">> ELSE a2
      b1 == Replace(a3, <<"+", "1", " ">>, <<>>)
      b2 == Replace(b1, <<"-">>, <<>>)
      b3 == Replace(b2, <<" ">>, <<>>)
      b4 == Replace(b3, <<".">>, <<>>)
      b5 == Replace(b4, <<"(">>, <<>>)
      b6 == Replace(b5, <<")">>, <<>>)
      b7 == Replace(b6, <<"+", "1">>, <<>>)
      b8 == Replace(b7, <<"N", "e", "w", " ", "C", "u", "s", "t", "o", "m", "e", "r", ":", " ">>, <<>>)
      b9 == Replace(b8, <<"S", "u", "s", "a", "n", "n", "a", " ", "F", "a", "r", "m", " ", "N", "u", "r", "s", "e", "r", "y", ":", " ">>, <<>>)
      b10 == Replace(b9, <<"t", "e", "l", ":">>, <<>>)
  IN  IF Len(b10) > 10 THEN Slice(b10, 10) ELSE b10

fix_postcode(v) ==
  LET a1 == IF v = <<"2", "0", "1", "1">> THEN <<"2", "0", "0", "1", "1">> ELSE v
      a2 == IF a1 = <<"2", "0", "0", "5">> THEN <<"2", "0", "0", "0", "5">> ELSE a1
  IN  IF Len(a2) # 5 THEN Slice(a2, 5) ELSE a2

(***************************************************************************)
(* Values of the variables a specification does not use.                   *)
(***************************************************************************)
NoValue == <<>>
NoSinks == [nodes |-> <<>>, node_tags |-> <<>>, ways |-> <<>>,
            way_nodes |-> <<>>, way_tags |-> <<>>]

(***************************************************************************)
(* shape_element.                                                          *)
(*                                                                         *)
(* An element is [tag, attrib, tags, nds]: its kind, its top-level         *)
(* attributes (a function from attribute names to values), its child tag   *)
(* elements [k, v] in document order and, for a way, the refs of its child *)
(* nd elements in document order.                                          *)
(***************************************************************************)
NODE_FIELDS == <<"id", "lat", "lon", "user", "uid", "version", "changeset", "timestamp">>

WAY_FIELDS == <<"id", "user", "uid", "version", "changeset", "timestamp">>

\* the characters of the class the regular expression PROBLEMCHARS matches
PROBLEMCHARS ==
  {"=", "+", "/", "&", "<", ">", ";", "'", "\"", "?", "%", "#", "$", "@",
   ",", ".", " ", "\t", "\r", "\n"}

\* problem_chars.search(k) finds a match
problem_chars_search(k) == \E i \in 1..Len(k) : k[i] \in PROBLEMCHARS

\* Python's None, returned for an element that is neither a node nor a way
None == [none |-> TRUE]

\* the exception an absent attribute raises in element.attrib[field]
KeyError(field) == [raised |-> "KeyError", field |-> field]

\* the first field of fields that element.attrib lacks, 0 if there is none
first_missing(attrib, fields) ==
  IF \E i \in 1..Len(fields) : fields[i] \notin DOMAIN attrib
  THEN CHOOSE i \in 1..Len(fields) :
         /\ fields[i] \notin DOMAIN attrib
         /\ \A j \in 1..(i - 1) : fields[j] \in DOMAIN attrib
  ELSE 0

\* node_attribs / way_attribs: the listed fields of element.attrib
attribs_of(attrib, fields) ==
  [f \in {fields[i] : i \in 1..Len(fields)} |-> attrib[f]]

is_street_name(tag) == tag.k = <<"a", "d", "d", "r", ":", "s", "t", "r", "e", "e", "t">>

\* the dict n of the inner loop: a later tag of the same key overwrites
tag_dict_n(tags) ==
  [k \in {tags[i].k : i \in 1..Len(tags)} |->
     tags[CHOOSE i \in 1..Len(tags) :
            tags[i].k = k /\ \A j \in (i + 1)..Len(tags) : tags[j].k # k].v]

\* the tag the body of the node loop works on in its i-th iteration: the
\* inner loop over element.iter("tag") rebinds the loop variable tag and
\* leaves it at the last child tag
node_loop_tag(tags, i) == tags[Len(tags)]

\* tag_dict['value'] of the node branch
node_tag_value(tag, n) ==
  IF /\ tag.k = <<"n", "a", "m", "e">>
     /\ <<"a", "m", "e", "n", "i", "t", "y">> \in DOMAIN n
     /\ n[<<"a", "m", "e", "n", "i", "t", "y">>] = <<"p", "h", "a", "r", "m", "a", "c", "y">>
     /\ <<"n", "a", "m", "e">> \in DOMAIN n
  THEN fix_pharmacy(tag.v)
  ELSE IF tag.k = <<"p", "h", "o", "n", "e">> THEN fix_phone(tag.v)
  ELSE IF tag.k = <<"c", "o", "n", "t", "a", "c", "t", ":", "p", "h", "o", "n", "e">> THEN fix_phone(tag.v)
  ELSE IF tag.k = <<"p", "h", "o", "n", "e", ":", "p", "h", "a", "r", "m", "a", "c", "y">> THEN fix_phone(tag.v)
  ELSE IF tag.k = <<"a", "d", "d", "r", ":", "p", "o", "s", "t", "c", "o", "d", "e">> THEN fix_postcode(tag.v)
  ELSE tag.v

\* tag_dict['value'] of the way branch
way_tag_value(tag) ==
  IF tag.k = <<"t", "i", "g", "e", "r", ":", "c", "o", "u", "n", "t", "y">> THEN fix_county(tag.v)
  ELSE IF is_street_name(tag) THEN update_name(tag.v, mapping)
  ELSE tag.v

\* the split taken at the last colon of the key instead of the first
tag_key_type_last_colon(k) ==
  IF ~Contains(<<":">>, k)
  THEN [key |-> k, type |-> <<"r", "e", "g", "u", "l", "a", "r">>]
  ELSE LET p == CHOOSE p \in 1..Len(k) :
                  k[p] = ":" /\ \A q \in (p + 1)..Len(k) : k[q] # ":"
       IN  [key |-> SubSeq(k, p + 1, Len(k)), type |-> SubSeq(k, 1, p - 1)]

\* tag_dict['key'] and tag_dict['type'] of a key without problem characters
tag_key_type(k) ==
  IF ~Contains(<<":">>, k)
  THEN [key |-> k, type |-> <<"r", "e", "g", "u", "l", "a", "r">>]
  ELSE [key |-> Split1(k, ":")[2], type |-> Split1(k, ":")[1]]

\* what one iteration of a tag loop appends to tags
tag_record(tag, v, id) ==
  IF problem_chars_search(tag.k) THEN <<>>
  ELSE <<[value |-> v, id |-> id,
          key |-> tag_key_type(tag.k).key, type |-> tag_key_type(tag.k).type]>>

\* the tag loop of the node branch, from its i-th iteration on
RECURSIVE node_tags_loop(_, _, _)
node_tags_loop(tags, id, i) ==
  IF i > Len(tags) THEN <<>>
  ELSE tag_record(node_loop_tag(tags, i),
                  node_tag_value(node_loop_tag(tags, i), tag_dict_n(tags)), id)
       \o node_tags_loop(tags, id, i + 1)

\* the tag loop of the way branch, from its i-th iteration on
RECURSIVE way_tags_loop(_, _, _)
way_tags_loop(tags, id, i) ==
  IF i > Len(tags) THEN <<>>
  ELSE tag_record(tags[i], way_tag_value(tags[i]), id)
       \o way_tags_loop(tags, id, i + 1)

\* the nd loop with index incremented before it is stored: positions from 1
RECURSIVE way_nodes_loop_from_one(_, _, _)
way_nodes_loop_from_one(nds, id, i) ==
  IF i > Len(nds) THEN <<>>
  ELSE <<[id |-> id, node_id |-> nds[i], position |-> i]>>
       \o way_nodes_loop_from_one(nds, id, i + 1)

\* the nd loop of the way branch, from the reference at i on; index = i - 1
RECURSIVE way_nodes_loop(_, _, _)
way_nodes_loop(nds, id, i) ==
  IF i > Len(nds) THEN <<>>
  ELSE <<[id |-> id, node_id |-> nds[i], position |-> i - 1]>>
       \o way_nodes_loop(nds, id, i + 1)

shape_element(e) ==
  IF e.tag = "node"
  THEN IF first_missing(e.attrib, NODE_FIELDS) # 0
       THEN KeyError(NODE_FIELDS[first_missing(e.attrib, NODE_FIELDS)])
       ELSE [node |-> attribs_of(e.attrib, NODE_FIELDS),
             node_tags |-> node_tags_loop(e.tags, e.attrib["id"], 1)]
  ELSE IF e.tag = "way"
  THEN IF first_missing(e.attrib, WAY_FIELDS) # 0
       THEN KeyError(WAY_FIELDS[first_missing(e.attrib, WAY_FIELDS)])
       ELSE [way |-> attribs_of(e.attrib, WAY_FIELDS),
             way_nodes |-> way_nodes_loop(e.nds, e.attrib["id"], 1),
             way_tags |-> way_tags_loop(e.tags, e.attrib["id"], 1)]
  ELSE None

(***************************************************************************)
(* The elements shape_element is called on.                                *)
(***************************************************************************)
\* number of child tags of an element
MaxTags == 2
\* number of nd children of a way
MaxRefs == 3

TagPool ==
  {[k |-> <<"a", "d", "d", "r", ":", "p", "o", "s", "t", "c", "o", "d", "e">>, v |-> <<"2", "0", "1", "1">>],
   [k |-> <<"a", "m", "e", "n", "i", "t", "y">>, v |-> <<"p", "h", "a", "r", "m", "a", "c", "y">>],
   [k |-> <<"n", "a", "m", "e">>, v |-> <<"C", "V", "S", "/", "p", "h", "a", "r", "m", "a", "c", "y">>],
   [k |-> <<"a", " ", "b">>, v |-> <<"x">>],
   [k |-> <<"a", "d", "d", "r", ":", "s", "t", "r", "e", "e", "t", ":", "n", "a", "m", "e">>, v |-> <<"L", "i", "n", "c", "o", "l", "n">>],
   [k |-> <<"a", "d", "d", "r", ":", "s", "t", "r", "e", "e", "t">>, v |-> <<"M", "a", "i", "n", " ", "S", "t">>],
   [k |-> <<"p", "h", "o", "n", "e">>, v |-> <<"6", "4", "9", " ", "3", "5", "5", "5">>],
   [k |-> <<"t", "i", "g", "e", "r", ":", "c", "o", "u", "n", "t", "y">>, v |-> <<"C", "o", "o", "k", ",", " ", "I", "L">>]}

RefPool == {"9", "4"}

\* the attributes an element of the kind carries in the source document
AttribNames(kind) ==
  IF kind = "node" THEN {NODE_FIELDS[i] : i \in 1..Len(NODE_FIELDS)} \cup {"visible"}
  ELSE {WAY_FIELDS[i] : i \in 1..Len(WAY_FIELDS)} \cup {"visible"}

AttribValue(f, id) ==
  CASE f = "id" -> id
    [] f = "lat" -> "0.0"
    [] f = "lon" -> "0.0"
    [] f = "user" -> "u"
    [] f = "uid" -> "2"
    [] f = "version" -> "1"
    [] f = "changeset" -> "3"
    [] f = "timestamp" -> "t"
    [] f = "visible" -> "true"

\* all attributes present, or exactly one of them absent
Attribs(kind, ids) ==
  {[f \in AttribNames(kind) |-> AttribValue(f, id)] : id \in ids}
  \cup {[f \in AttribNames(kind) \ {g} |-> AttribValue(f, "1")] :
          g \in AttribNames(kind)}

Nodes(ids, tagLists) ==
  {[tag |-> "node", attrib |-> a, tags |-> t, nds |-> <<>>] :
     a \in Attribs("node", ids), t \in tagLists}

Ways(ids, tagLists, refLists) ==
  {[tag |-> "way", attrib |-> a, tags |-> t, nds |-> r] :
     a \in Attribs("way", ids), t \in tagLists, r \in refLists}

Relations == {[tag |-> "relation", attrib |-> a, tags |-> <<>>, nds |-> <<>>] :
                a \in Attribs("way", {"1"})}

Elements ==
  Nodes({"1"}, SeqsUpTo(TagPool, MaxTags))
  \cup Ways({"1"}, SeqsUpTo(TagPool, MaxTags), SeqsUpTo(RefPool, MaxRefs))
  \cup Relations

ShapeInit ==
  /\ pc = "call"
  /\ element \in Elements
  /\ el = None
  /\ value = NoValue
  /\ result = NoValue
  /\ again = NoValue
  /\ sinks = NoSinks
  /\ raised = "none"
  /\ remaining = 0
  /\ validate = FALSE

shape_element_call ==
  /\ pc = "call"
  /\ el' = shape_element(element)
  /\ pc' = "done"
  /\ UNCHANGED <<value, result, again, element, sinks, raised, remaining, validate>>

SpecShape == ShapeInit /\ [][shape_element_call]_vars

NormalizerIdle ==
  /\ element = None
  /\ el = None
  /\ sinks = NoSinks
  /\ raised = "none"
  /\ remaining = 0
  /\ validate = FALSE

NormalizerInit(inputs) ==
  /\ pc = "call"
  /\ value \in inputs
  /\ result = NoValue
  /\ again = NoValue
  /\ NormalizerIdle

(***************************************************************************)
(* update_name called on a street name, and again on its own result.       *)
(***************************************************************************)
StreetParts ==
  {mapping[i][1] : i \in 1..Len(mapping)} \cup {<<" ">>, <<"M", "a", "i", "n">>, <<"K">>}

StreetInputs == {Join(p) : p \in SeqsUpTo(StreetParts, MaxStreetParts)}

update_name_call ==
  /\ pc = "call"
  /\ result' = update_name(value, mapping)
  /\ pc' = "called"
  /\ UNCHANGED <<value, again, element, el, sinks, raised, remaining, validate>>

update_name_again ==
  /\ pc = "called"
  /\ again' = update_name(result, mapping)
  /\ pc' = "done"
  /\ UNCHANGED <<value, result, element, el, sinks, raised, remaining, validate>>

StreetNext == update_name_call \/ update_name_again

SpecStreet == NormalizerInit(StreetInputs) /\ [][StreetNext]_vars

(***************************************************************************)
(* fix_phone called on a phone value.                                      *)
(***************************************************************************)
PhoneLiterals == {<<"+", "1", " ", "8", "6", "6", "-", "R", "I", "D", "M", "T", "A">>, <<"+", "1", "3", "1", "9", "2", "8", "8", "1">>, <<"6", "4", "9", " ", "3", "5", "5", "5">>}

PhoneParts ==
  {<<"+", "1", " ">>, <<"-">>, <<" ">>, <<".">>, <<"(">>, <<")">>, <<"+", "1">>, <<"+">>, <<"1">>,
   <<"N", "e", "w", " ", "C", "u", "s", "t", "o", "m", "e", "r", ":", " ">>, <<"S", "u", "s", "a", "n", "n", "a", " ", "F", "a", "r", "m", " ", "N", "u", "r", "s", "e", "r", "y", ":", " ">>, <<"t", "e", "l", ":">>,
   <<"2", "0", "2", "5", "5", "5", "0", "1", "2", "3">>, <<"4", "5">>}

PhoneInputs ==
  PhoneLiterals \cup {Join(p) : p \in SeqsUpTo(PhoneParts, MaxPhoneParts)}

fix_phone_call ==
  /\ pc = "call"
  /\ result' = fix_phone(value)
  /\ pc' = "done"
  /\ UNCHANGED <<value, again, element, el, sinks, raised, remaining, validate>>

SpecPhone == NormalizerInit(PhoneInputs) /\ [][fix_phone_call]_vars

(***************************************************************************)
(* fix_postcode called on a postcode value.                                *)
(***************************************************************************)
PostcodeChars == {"0", "1", "2", "5"}

PostcodeInputs == SeqsUpTo(PostcodeChars, MaxPostLen)

fix_postcode_call ==
  /\ pc = "call"
  /\ result' = fix_postcode(value)
  /\ pc' = "done"
  /\ UNCHANGED <<value, again, element, el, sinks, raised, remaining, validate>>

SpecPostcode == NormalizerInit(PostcodeInputs) /\ [][fix_postcode_call]_vars

(***************************************************************************)
(* fix_pharmacy called on a pharmacy name.                                 *)
(***************************************************************************)
PharmacyLiterals == {<<"C", "V", "S", "/", "p", "h", "a", "r", "m", "a", "c", "y", " ", "-", " ", "M", "a", "i", "n", " ", "S", "t">>}

PharmacyParts ==
  {<<"/">>, <<"-">>, <<" ">>, <<"P", "h", "a", "r", "m", "a", "c", "y">>, <<"p", "h", "a", "r", "m", "a", "c", "y">>, <<"P", "h", "a", "r">>, <<"p", "h", "a", "r">>,
   <<"m", "a", "c", "y">>, <<"C", "V", "S">>, <<"M", "a", "i", "n">>, <<"S", "t">>}

PharmacyInputs ==
  PharmacyLiterals \cup {Join(p) : p \in SeqsUpTo(PharmacyParts, MaxNameParts)}

fix_pharmacy_call ==
  /\ pc = "call"
  /\ result' = fix_pharmacy(value)
  /\ pc' = "done"
  /\ UNCHANGED <<value, again, element, el, sinks, raised, remaining, validate>>

SpecPharmacy == NormalizerInit(PharmacyInputs) /\ [][fix_pharmacy_call]_vars

(***************************************************************************)
(* fix_county called on a county value.                                    *)
(***************************************************************************)
CountyLiterals == {<<"C", "o", "o", "k", ",", " ", "I", "L">>, <<"C", "o", "o", "k", ":", "I", "L">>}

CountyParts == {<<"C", "o", "o", "k">>, <<"I", "L">>, <<",">>, <<":">>, <<";">>, <<" ">>}

CountyInputs ==
  CountyLiterals \cup {Join(p) : p \in SeqsUpTo(CountyParts, MaxCountyParts)}

fix_county_call ==
  /\ pc = "call"
  /\ result' = fix_county(value)
  /\ pc' = "done"
  /\ UNCHANGED <<value, again, element, el, sinks, raised, remaining, validate>>

SpecCounty == NormalizerInit(CountyInputs) /\ [][fix_county_call]_vars

(***************************************************************************)
(* process_map: the loop over the elements get_element yields, shaping,    *)
(* validating and writing each to the five csv writers.                    *)
(***************************************************************************)
\* number of elements the input file holds
MaxElements == 2

\* get_element(file_in, tags=('node', 'way')) yields the element
get_element_yields(e) == e.tag \in {"node", "way"}

\* attribute values int() accepts
Numerals == {"1", "2", "3", "4", "9"}

\* validator.validate(element, schema) is True: the schema of schema.py
\* declares the id of a node or way an integer
schema_validate(x) ==
  IF "node" \in DOMAIN x THEN x.node["id"] \in Numerals
  ELSE x.way["id"] \in Numerals

\* the rows appended to a csv file by writerows
writerows(file, rows) == file \o rows

\* the writes of the loop body for a shaped node or way
write_element(s, x) ==
  IF "node" \in DOMAIN x
  THEN [s EXCEPT !.nodes = writerows(@, <<x.node>>),
                 !.node_tags = writerows(@, x.node_tags)]
  ELSE [s EXCEPT !.ways = writerows(@, <<x.way>>),
                 !.way_nodes = writerows(@, x.way_nodes),
                 !.way_tags = writerows(@, x.way_tags)]

\* the loop body with the element written before it is validated
loop_body_validate_late(e, x, s, v) ==
  IF "raised" \in DOMAIN shape_element(e)
  THEN [raised |-> "KeyError", el |-> x, sinks |-> s]
  ELSE IF shape_element(e) = None
  THEN [raised |-> "none", el |-> None, sinks |-> s]
  ELSE IF v /\ ~schema_validate(shape_element(e))
  THEN [raised |-> "ValidationError", el |-> shape_element(e),
        sinks |-> write_element(s, shape_element(e))]
  ELSE [raised |-> "none", el |-> shape_element(e),
        sinks |-> write_element(s, shape_element(e))]

\* the body of the for loop of process_map for element e, the shaped
\* element being x, the files s and the flag v: the exception raised, if
\* any, and the files after it
loop_body(e, x, s, v) ==
  IF "raised" \in DOMAIN shape_element(e)
  THEN [raised |-> "KeyError", el |-> x, sinks |-> s]
  ELSE IF shape_element(e) = None
  THEN [raised |-> "none", el |-> None, sinks |-> s]
  ELSE IF v /\ ~schema_validate(shape_element(e))
  THEN [raised |-> "ValidationError", el |-> shape_element(e), sinks |-> s]
  ELSE [raised |-> "none", el |-> shape_element(e),
        sinks |-> write_element(s, shape_element(e))]

StreamTagLists ==
  {<<>>,
   <<[k |-> <<"a", "d", "d", "r", ":", "p", "o", "s", "t", "c", "o", "d", "e">>, v |-> <<"2", "0", "1", "1">>]>>,
   <<[k |-> <<"a", "m", "e", "n", "i", "t", "y">>, v |-> <<"p", "h", "a", "r", "m", "a", "c", "y">>], [k |-> <<"n", "a", "m", "e">>, v |-> <<"C", "V", "S", "/", "p", "h", "a", "r", "m", "a", "c", "y">>]>>}

StreamRefLists == {<<>>, <<"9", "4">>}

\* the elements of the input file
StreamElements ==
  Nodes({"1", "x"}, StreamTagLists)
  \cup Ways({"1", "x"}, StreamTagLists, StreamRefLists)
  \cup Relations

Init ==
  /\ pc = "loop"
  /\ validate \in BOOLEAN
  /\ remaining = MaxElements
  /\ element = None
  /\ el = None
  /\ sinks = NoSinks
  /\ raised = "none"
  /\ value = NoValue
  /\ result = NoValue
  /\ again = NoValue

\* one iteration of the for loop of process_map
process_element ==
  /\ pc = "loop"
  /\ remaining > 0
  /\ \E e \in StreamElements :
       /\ get_element_yields(e)
       /\ element' = e
       /\ el' = loop_body(e, el, sinks, validate).el
       /\ sinks' = loop_body(e, el, sinks, validate).sinks
       /\ raised' = loop_body(e, el, sinks, validate).raised
       /\ pc' = IF loop_body(e, el, sinks, validate).raised = "none"
                THEN "loop" ELSE "failed"
  /\ remaining' = remaining - 1
  /\ UNCHANGED <<value, result, again, validate>>

\* get_element is exhausted: the loop ends and the files are closed
end_of_stream ==
  /\ pc = "loop"
  /\ pc' = "done"
  /\ UNCHANGED <<value, result, again, element, el, sinks, raised, remaining, validate>>

Next == process_element \/ end_of_stream

Spec == Init /\ [][Next]_vars

(***************************************************************************)
(* Vocabulary of the claims about shape_element.                           *)
(***************************************************************************)
\* every field of the list is an attribute of the element
HasAll(e, fields) == \A i \in 1..Len(fields) : fields[i] \in DOMAIN e.attrib

\* the element is a node or a way carrying all its required attributes
Shapeable(e) ==
  \/ e.tag = "node" /\ HasAll(e, NODE_FIELDS)
  \/ e.tag = "way" /\ HasAll(e, WAY_FIELDS)

\* the key holds no problem character
CleanKey(k) == \A i \in 1..Len(k) : k[i] \notin PROBLEMCHARS

\* the TagRecords of a shaped node or way
TagRecords(x) == IF "node_tags" \in DOMAIN x THEN x.node_tags ELSE x.way_tags

\* the type and key of record r are the split of the raw key k at its
\* first colon
SplitOf(r, k) ==
  IF \A p \in 1..Len(k) : k[p] # ":"
  THEN r.type = <<"r", "e", "g", "u", "l", "a", "r">> /\ r.key = k
  ELSE /\ \E p \in 1..Len(k) :
            /\ k[p] = ":"
            /\ \A q \in 1..(p - 1) : k[q] # ":"
            /\ r.type = SubSeq(k, 1, p - 1)
            /\ r.key = SubSeq(k, p + 1, Len(k))
       /\ \A p \in 1..Len(r.type) : r.type[p] # ":"
       /\ r.type \o <<":">> \o r.key = k

\* the values a normalizer, or none, makes of v
PossiblyNormalized(v) ==
  {v, fix_pharmacy(v), fix_phone(v), fix_postcode(v), fix_county(v),
   update_name(v, mapping)}

\* the element without its i-th child tag
WithoutTag(e, i) ==
  [e EXCEPT !.tags = SubSeq(e.tags, 1, i - 1) \o SubSeq(e.tags, i + 1, Len(e.tags))]

(***************************************************************************)
(* C1: a node whose tag keys are all free of problem characters gets one   *)
(* TagRecord per child tag, in source order, the i-th derived from the     *)
(* i-th tag.                                                               *)
(***************************************************************************)
\* C1: for a node whose keys are all clean, node_tags has one record per
\* tag, the i-th carrying the node's id, the split of the i-th key and the
\* i-th tag's own (possibly normalized) value; the single tag
\* (addr:postcode, 2011) gives {id, postcode, 20011, addr}
C1_NodeTagsOnePerTag ==
  (/\ pc = "done"
   /\ element.tag = "node"
   /\ HasAll(element, NODE_FIELDS)
   /\ \A i \in 1..Len(element.tags) : CleanKey(element.tags[i].k))
  =>
  /\ Len(el.node_tags) = Len(element.tags)
  /\ \A i \in 1..Len(element.tags) :
       /\ el.node_tags[i].id = element.attrib["id"]
       /\ SplitOf(el.node_tags[i], element.tags[i].k)
       /\ el.node_tags[i].value \in PossiblyNormalized(element.tags[i].v)
  /\ element.tags = <<[k |-> <<"a", "d", "d", "r", ":", "p", "o", "s", "t", "c", "o", "d", "e">>, v |-> <<"2", "0", "1", "1">>]>> =>
       el.node_tags = <<[id |-> element.attrib["id"], key |-> <<"p", "o", "s", "t", "c", "o", "d", "e">>,
                         value |-> <<"2", "0", "0", "1", "1">>, type |-> <<"a", "d", "d", "r">>]>>

(***************************************************************************)
(* C2: a tag whose key holds a problem character gets no TagRecord and     *)
(* leaves the records of its sibling tags as they are without it.          *)
(***************************************************************************)
\* C2: for a node or a way, a tag with a problem character in its key has
\* no record, and the records emitted are those of the element without
\* that tag, wherever the tag stands among its siblings
C2_RejectedTagDropped ==
  (pc = "done" /\ Shapeable(element)) =>
    \A i \in 1..Len(element.tags) :
      ~CleanKey(element.tags[i].k) =>
        /\ \A j \in 1..Len(TagRecords(el)) :
             ~SplitOf(TagRecords(el)[j], element.tags[i].k)
        /\ TagRecords(el) = TagRecords(shape_element(WithoutTag(element, i)))

(***************************************************************************)
(* C3: type and key of an emitted TagRecord are the split of a raw key at  *)
(* its first colon.                                                        *)
(***************************************************************************)
\* C3: every emitted TagRecord has type "regular" and the raw key as key
\* when the raw key has no colon, and otherwise the part before the first
\* colon as type (no colon in it) and all that follows it as key, so that
\* type, ":" and key rebuild the raw key
C3_KeySplitAtFirstColon ==
  (pc = "done" /\ Shapeable(element)) =>
    \A j \in 1..Len(TagRecords(el)) :
      \E i \in 1..Len(element.tags) :
        SplitOf(TagRecords(el)[j], element.tags[i].k)

\* a way with a key of two colons and a key of none has been shaped
C3_Witness ==
  /\ pc = "done"
  /\ element.tag = "way"
  /\ HasAll(element, WAY_FIELDS)
  /\ \E j \in 1..Len(el.way_tags) :
       el.way_tags[j].type = <<"a", "d", "d", "r">> /\ el.way_tags[j].key = <<"s", "t", "r", "e", "e", "t", ":", "n", "a", "m", "e">>
  /\ \E j \in 1..Len(el.way_tags) :
       el.way_tags[j].type = <<"r", "e", "g", "u", "l", "a", "r">> /\ el.way_tags[j].key = <<"a", "m", "e", "n", "i", "t", "y">>

(***************************************************************************)
(* C4: a way with n node references gets n WayNodeRecords, in source       *)
(* order, at positions 0..n-1.                                             *)
(***************************************************************************)
\* C4: way_nodes has one record per nd child, the i-th (0-based) with
\* position i, the ref of the i-th nd as node_id and the way's id
C4_WayNodePositions ==
  (pc = "done" /\ element.tag = "way" /\ HasAll(element, WAY_FIELDS)) =>
    /\ Len(el.way_nodes) = Len(element.nds)
    /\ \A i \in 1..Len(element.nds) :
         el.way_nodes[i] = [id |-> element.attrib["id"],
                            node_id |-> element.nds[i],
                            position |-> i - 1]

\* a way with three references, one of them repeated and not in
\* increasing order, has been shaped
C4_Witness ==
  /\ pc = "done"
  /\ element.tag = "way"
  /\ HasAll(element, WAY_FIELDS)
  /\ element.nds = <<"9", "4", "9">>
  /\ Len(el.way_nodes) = Len(element.nds)

(***************************************************************************)
(* C5: an element whose shaping or validation fails leaves no record in    *)
(* any of the five files, and the failure ends process_map.                *)
(***************************************************************************)
\* C5: when the element read lacks a required attribute, or validation is
\* on and the shaped element fails it, process_map ends with the exception
\* and the step writes nothing to any of the five files
C5_FailureWritesNothing ==
  [][(/\ remaining' = remaining - 1
      /\ \/ ~Shapeable(element')
         \/ validate /\ ~schema_validate(shape_element(element')))
     => (pc' = "failed" /\ raised' # "none" /\ sinks' = sinks)]_vars

\* a node lacking a required attribute has failed after an earlier element
\* was written
C5_Witness ==
  /\ pc = "failed"
  /\ raised = "KeyError"
  /\ ~Shapeable(element)
  /\ element.tags # <<>>
  /\ Len(sinks.nodes) + Len(sinks.ways) = 1

(***************************************************************************)
(* C6: update_name with the repository's table is idempotent.              *)
(***************************************************************************)
\* C6: applying update_name to its own result gives that result again
C6_UpdateNameIdempotent == pc = "done" => again = result

(***************************************************************************)
(* C7: fix_phone returns at most 10 characters, and the three known        *)
(* malformed literals come out as their corrected numbers.                 *)
(***************************************************************************)
\* C7: length of the result at most 10; the known literals are corrected
C7_PhoneLengthAndLiterals ==
  pc = "done" =>
    /\ Len(result) <= 10
    /\ value = <<"+", "1", " ", "8", "6", "6", "-", "R", "I", "D", "M", "T", "A">> => result = <<"8", "6", "6", "7", "4", "3", "3", "6", "8", "2">>
    /\ value = <<"+", "1", "3", "1", "9", "2", "8", "8", "1">> => result = <<"2", "0", "2", "3", "1", "9", "2", "8", "8", "1">>
    /\ value = <<"6", "4", "9", " ", "3", "5", "5", "5">> => result = <<"3", "0", "1", "6", "4", "9", "3", "5", "5", "5">>

\* a value longer than 10 characters after stripping has been truncated
C7_Witness ==
  /\ pc = "done"
  /\ value = <<"2", "0", "2", "5", "5", "5", "0", "1", "2", "3">> \o <<"4", "5">>
  /\ result = <<"2", "0", "2", "5", "5", "5", "0", "1", "2", "3">>

\* a known malformed literal has been corrected
C7_WitnessLiteral ==
  /\ pc = "done"
  /\ value = <<"+", "1", " ", "8", "6", "6", "-", "R", "I", "D", "M", "T", "A">>
  /\ result = <<"8", "6", "6", "7", "4", "3", "3", "6", "8", "2">>

(***************************************************************************)
(* C8: fix_postcode returns exactly 5 characters for a non-empty input.    *)
(***************************************************************************)
\* C8: a non-empty input gives a result of length exactly 5, 2011 gives
\* 20011 and 2005 gives 20005
C8_PostcodeLengthFive ==
  (pc = "done" /\ value # <<>>) =>
    /\ Len(result) = 5
    /\ value = <<"2", "0", "1", "1">> => result = <<"2", "0", "0", "1", "1">>
    /\ value = <<"2", "0", "0", "5">> => result = <<"2", "0", "0", "0", "5">>

(***************************************************************************)
(* C9: the result of fix_pharmacy holds none of the removed substrings.    *)
(***************************************************************************)
\* C9: no "/", "-", space, "Pharmacy" or "pharmacy" occurs in the result,
\* and 'CVS/pharmacy - Main St' becomes 'CVSMainSt'
C9_PharmacyAllRemoved ==
  pc = "done" =>
    /\ ~Contains(<<"/">>, result)
    /\ ~Contains(<<"-">>, result)
    /\ ~Contains(<<" ">>, result)
    /\ ~Contains(<<"P", "h", "a", "r", "m", "a", "c", "y">>, result)
    /\ ~Contains(<<"p", "h", "a", "r", "m", "a", "c", "y">>, result)
    /\ value = <<"C", "V", "S", "/", "p", "h", "a", "r", "m", "a", "c", "y", " ", "-", " ", "M", "a", "i", "n", " ", "S", "t">> => result = <<"C", "V", "S", "M", "a", "i", "n", "S", "t">>

(***************************************************************************)
(* C10: the name of a pharmacy node is cleaned by fix_pharmacy wherever    *)
(* the amenity tag stands; without amenity=pharmacy the name is kept.      *)
(***************************************************************************)
\* C10: for a node, the record of a name tag carries fix_pharmacy of its
\* value when the node has the tag amenity=pharmacy, before or after the
\* name tag, and its raw value otherwise
C10_PharmacyNameTrigger ==
  (/\ pc = "done"
   /\ element.tag = "node"
   /\ HasAll(element, NODE_FIELDS)
   /\ \A i \in 1..Len(element.tags) : CleanKey(element.tags[i].k))
  =>
    \A i \in 1..Len(element.tags) :
      element.tags[i].k = <<"n", "a", "m", "e">> =>
        \E j \in 1..Len(el.node_tags) :
          /\ el.node_tags[j].key = <<"n", "a", "m", "e">>
          /\ el.node_tags[j].type = <<"r", "e", "g", "u", "l", "a", "r">>
          /\ el.node_tags[j].value =
               IF \E a \in 1..Len(element.tags) :
                    element.tags[a] = [k |-> <<"a", "m", "e", "n", "i", "t", "y">>, v |-> <<"p", "h", "a", "r", "m", "a", "c", "y">>]
               THEN fix_pharmacy(element.tags[i].v)
               ELSE element.tags[i].v

(***************************************************************************)
(* C11: fix_county keeps what precedes the first comma of a value without  *)
(* ":" and ";", and leaves any other value as it is.                       *)
(***************************************************************************)
\* C11: a value with neither ":" nor ";" comes out as its part before the
\* first comma (itself when it has no comma); a value with ":" or ";"
\* comes out unchanged, commas or not; 'Cook, IL' gives 'Cook' and
\* 'Cook:IL' stays 'Cook:IL'
C11_CountyBeforeFirstComma ==
  pc = "done" =>
    /\ (\E p \in 1..Len(value) : value[p] \in {":", ";"}) => result = value
    /\ (/\ \A p \in 1..Len(value) : value[p] \notin {":", ";"}
        /\ \A p \in 1..Len(value) : value[p] # ",") => result = value
    /\ \A p \in 1..Len(value) :
         (/\ \A q \in 1..Len(value) : value[q] \notin {":", ";"}
          /\ value[p] = ","
          /\ \A q \in 1..(p - 1) : value[q] # ",")
         => result = SubSeq(value, 1, p - 1)
    /\ value = <<"C", "o", "o", "k", ",", " ", "I", "L">> => result = <<"C", "o", "o", "k">>
    /\ value = <<"C", "o", "o", "k", ":", "I", "L">> => result = <<"C", "o", "o", "k", ":", "I", "L">>

\* a value of two commas and no ":" or ";" has been cut at its first comma
C11_Witness ==
  /\ pc = "done"
  /\ value = <<"C", "o", "o", "k", ",", "I", "L", ",">>
  /\ result = <<"C", "o", "o", "k">>

(***************************************************************************)
(* C12: the value of an addr:street tag is expanded by update_name on      *)
(* nodes and on ways; a tag no normalizer is triggered by keeps its value. *)
(***************************************************************************)
\* the raw keys a normalizer is triggered by
TriggerKeys ==
  {<<"a", "d", "d", "r", ":", "s", "t", "r", "e", "e", "t">>, <<"p", "h", "o", "n", "e">>, <<"c", "o", "n", "t", "a", "c", "t", ":", "p", "h", "o", "n", "e">>, <<"p", "h", "o", "n", "e", ":", "p", "h", "a", "r", "m", "a", "c", "y">>,
   <<"a", "d", "d", "r", ":", "p", "o", "s", "t", "c", "o", "d", "e">>, <<"t", "i", "g", "e", "r", ":", "c", "o", "u", "n", "t", "y">>, <<"n", "a", "m", "e">>}

\* C12: for a node or a way, every emitted record of raw key addr:street
\* carries update_name of the raw value of an addr:street tag of the
\* element, and every emitted record whose raw key triggers no normalizer
\* carries the raw value of a tag of that key
C12_StreetNormalizedEverywhere ==
  (pc = "done" /\ Shapeable(element)) =>
    \A j \in 1..Len(TagRecords(el)) :
      /\ SplitOf(TagRecords(el)[j], <<"a", "d", "d", "r", ":", "s", "t", "r", "e", "e", "t">>) =>
           \E i \in 1..Len(element.tags) :
             /\ element.tags[i].k = <<"a", "d", "d", "r", ":", "s", "t", "r", "e", "e", "t">>
             /\ TagRecords(el)[j].value = update_name(element.tags[i].v, mapping)
      /\ (\A t \in TriggerKeys : ~SplitOf(TagRecords(el)[j], t)) =>
           \E i \in 1..Len(element.tags) :
             /\ SplitOf(TagRecords(el)[j], element.tags[i].k)
             /\ TagRecords(el)[j].value = element.tags[i].v

(***************************************************************************)
(* C13: fix_phone strips the prefix labels it knows.                       *)
(***************************************************************************)
\* the labels fix_phone looks for
PhoneLabels == {<<"N", "e", "w", " ", "C", "u", "s", "t", "o", "m", "e", "r", ":", " ">>, <<"S", "u", "s", "a", "n", "n", "a", " ", "F", "a", "r", "m", " ", "N", "u", "r", "s", "e", "r", "y", ":", " ">>, <<"t", "e", "l", ":">>}

\* phone numbers a label is followed by
PhoneNumbers == {<<"2", "0", "2", "5", "5", "5", "0", "1", "2", "3">>, <<"4", "5">>, <<"1">>}

\* C13: a label followed by a phone number p comes out as fix_phone(p),
\* with no character of the label in it
C13_PhoneLabelsStripped ==
  pc = "done" =>
    \A label \in PhoneLabels : \A p \in PhoneNumbers :
      value = label \o p =>
        /\ result = fix_phone(p)
        /\ \A i \in 1..Len(label) : \A j \in 1..Len(result) :
             result[j] # label[i]

=============================================================================
